---- MODULE Spec2Model ----
(***************************************************************************)
(* Model of src/lambda/handler.py: the SQS-triggered survey processor.     *)
(*                                                                         *)
(* A Python str is modelled as a run-length sequence of code points:       *)
(* <<[c |-> 97, n |-> 4998], [c |-> 233, n |-> 2]>> is 'a' * 4998 + 'éé'.  *)
(* No run is empty and adjacent runs carry different code points, so two   *)
(* texts are equal exactly when their run sequences are equal.  A bytes    *)
(* object is a sequence of runs [u |-> unit, n |-> count], the byte        *)
(* sequence unit repeated count times; units are what str.encode emits per *)
(* code point, or a proper prefix of one after a slice cut it.             *)
(***************************************************************************)
EXTENDS Integers, Sequences, FiniteSets, TLC

VARIABLES
    pc,               \* "idle" (no invocation running) or "loop" (inside main's for loop)
    records,          \* event['Records'] of the running invocation
    i,                \* number of records the for loop has finished
    processed_count,  \* main's processed_count
    failed_count,     \* main's failed_count
    response,         \* what main returned last, or NoResponse
    table,            \* the DynamoDB table: key -> item
    log,              \* per finished record of this invocation: what the iteration did
    calls,            \* the bodies main passed to process_survey_message, in call order
    delivered,        \* records handed to main so far, over all invocations
    t_in,             \* argument of a direct call of truncate_text_for_comprehend
    t_out,            \* its result
    t_pc              \* "idle", "call" (about to run) or "return"

vars == <<pc, records, i, processed_count, failed_count, response, table, log,
          calls, delivered, t_in, t_out, t_pc>>

mainVars == <<pc, records, i, processed_count, failed_count, response, table, log,
              calls, delivered>>

truncVars == <<t_in, t_out, t_pc>>

(***************************************************************************)
(* Constants of the program and bounds of the model.                       *)
(***************************************************************************)
COMPREHEND_MAX_BYTES == 5000

DEFAULT_LANGUAGE_CODE == "en"

\* Records delivered to main over all invocations of one behaviour.
MaxDelivered == 2

\* Code points after the ASCII padding of a directly truncated text.
MaxTail == 2

\* How far below the byte budget the ASCII padding of those texts starts.
PadSlack == 5

(***************************************************************************)
(* str and bytes.                                                          *)
(***************************************************************************)
\* b & bit # 0, for bit a power of two
HasBit(b, bit) == (b \div bit) % 2 = 1

RECURSIVE StrLen(_)
\* len(text): the number of code points
StrLen(text) ==
    IF text = <<>> THEN 0 ELSE text[1].n + StrLen(Tail(text))

RECURSIVE ByteLen(_)
\* len(bs) of a bytes object
ByteLen(bs) ==
    IF bs = <<>> THEN 0 ELSE Len(bs[1].u) * bs[1].n + ByteLen(Tail(bs))

\* A lone surrogate, which str.encode('utf-8') refuses.
IsSurrogate(c) == c >= 55296 /\ c <= 57343

\* The UTF-8 encoding of one code point.
Utf8(c) ==
    IF c < 128 THEN <<c>>
    ELSE IF c < 2048 THEN <<192 + (c \div 64), 128 + (c % 64)>>
    ELSE IF c < 65536 THEN
        <<224 + (c \div 4096), 128 + ((c \div 64) % 64), 128 + (c % 64)>>
    ELSE <<240 + (c \div 262144), 128 + ((c \div 4096) % 64),
           128 + ((c \div 64) % 64), 128 + (c % 64)>>

\* Whether text.encode('utf-8') raises UnicodeEncodeError.
EncodeRaises(text) == \E k \in 1..Len(text) : IsSurrogate(text[k].c)

\* text.encode('utf-8'), for a text that encodes
Encode(text) == [k \in 1..Len(text) |-> [u |-> Utf8(text[k].c), n |-> text[k].n]]

RECURSIVE Slice(_, _)
\* bs[:k]
Slice(bs, k) ==
    IF bs = <<>> \/ k <= 0 THEN <<>>
    ELSE LET r == bs[1]
             w == Len(r.u)
         IN IF w * r.n <= k
            THEN <<r>> \o Slice(Tail(bs), k - w * r.n)
            ELSE (IF k \div w > 0 THEN <<[u |-> r.u, n |-> k \div w]>> ELSE <<>>)
                 \o (IF k % w > 0
                     THEN <<[u |-> SubSeq(r.u, 1, k % w), n |-> 1]>>
                     ELSE <<>>)

\* bs[-1]
LastByte(bs) == LET r == bs[Len(bs)] IN r.u[Len(r.u)]

\* bs[:-1]
DropLastByte(bs) ==
    LET r == bs[Len(bs)]
        front == SubSeq(bs, 1, Len(bs) - 1)
    IN front
       \o (IF r.n > 1 THEN <<[u |-> r.u, n |-> r.n - 1]>> ELSE <<>>)
       \o (IF Len(r.u) > 1
           THEN <<[u |-> SubSeq(r.u, 1, Len(r.u) - 1), n |-> 1]>>
           ELSE <<>>)

\* A continuation byte 10xxxxxx.
IsContinuation(b) == b >= 128 /\ b < 192

\* Whether the unit is the complete, well-formed encoding of one code point.
WellFormed(u) ==
    /\ u # <<>>
    /\ \/ u[1] < 128 /\ Len(u) = 1
       \/ u[1] >= 194 /\ u[1] < 224 /\ Len(u) = 2
       \/ u[1] >= 224 /\ u[1] < 240 /\ Len(u) = 3
       \/ u[1] >= 240 /\ u[1] < 245 /\ Len(u) = 4
    /\ \A k \in 2..Len(u) : IsContinuation(u[k])

\* The code point a well-formed unit encodes.
CodePoint(u) ==
    IF Len(u) = 1 THEN u[1]
    ELSE IF Len(u) = 2 THEN (u[1] - 192) * 64 + (u[2] - 128)
    ELSE IF Len(u) = 3 THEN (u[1] - 224) * 4096 + (u[2] - 128) * 64 + (u[3] - 128)
    ELSE (u[1] - 240) * 262144 + (u[2] - 128) * 4096 + (u[3] - 128) * 64
         + (u[4] - 128)

\* bs.decode('utf-8', errors='ignore'): bytes that decode to nothing are dropped
DecodeIgnore(bs) ==
    LET good == SelectSeq(bs, LAMBDA r : WellFormed(r.u))
    IN [k \in 1..Len(good) |-> [c |-> CodePoint(good[k].u), n |-> good[k].n]]

\* The code points str.strip() removes (str.isspace).
IsSpace(c) ==
    c \in {9, 10, 11, 12, 13, 28, 29, 30, 31, 32, 133, 160, 5760, 8232, 8233,
           8239, 8287, 12288}
    \/ (c >= 8192 /\ c <= 8202)

RECURSIVE LStrip(_)
LStrip(text) ==
    IF text # <<>> /\ IsSpace(text[1].c) THEN LStrip(Tail(text)) ELSE text

RECURSIVE RStrip(_)
RStrip(text) ==
    IF text # <<>> /\ IsSpace(text[Len(text)].c)
    THEN RStrip(SubSeq(text, 1, Len(text) - 1))
    ELSE text

\* text.strip()
Strip(text) == RStrip(LStrip(text))

(***************************************************************************)
(* truncate_text_for_comprehend                                            *)
(***************************************************************************)
RECURSIVE StripContinuation(_)
\* while truncated and truncated[-1] & 0x80 and not (truncated[-1] & 0x40):
\*     truncated = truncated[:-1]
StripContinuation(truncated) ==
    IF /\ truncated # <<>>
       /\ HasBit(LastByte(truncated), 128)
       /\ ~HasBit(LastByte(truncated), 64)
    THEN StripContinuation(DropLastByte(truncated))
    ELSE truncated

\* The truncation if the slice kept one byte too many (text_bytes[:max_bytes + 1]).
truncate_one_past(text, max_bytes) ==
    IF EncodeRaises(text) THEN [raised |-> "UnicodeEncodeError", text |-> <<>>]
    ELSE LET text_bytes == Encode(text)
         IN IF ByteLen(text_bytes) <= max_bytes
            THEN [raised |-> "", text |-> text]
            ELSE [raised |-> "",
                  text |-> DecodeIgnore(StripContinuation(Slice(text_bytes,
                                                                max_bytes + 1)))]

\* The call's outcome: [raised |-> "" or the exception, text |-> the str returned].
truncate_text_for_comprehend(text, max_bytes) ==
    IF EncodeRaises(text) THEN [raised |-> "UnicodeEncodeError", text |-> <<>>]
    ELSE LET text_bytes == Encode(text)
         IN IF ByteLen(text_bytes) <= max_bytes
            THEN [raised |-> "", text |-> text]
            ELSE [raised |-> "",
                  text |-> DecodeIgnore(StripContinuation(Slice(text_bytes, max_bytes)))]

(***************************************************************************)
(* datetime: a clock reading is [sec, us] since the epoch; a datetime is   *)
(* [year, month, day, sod, us] in UTC, sod the second of the day.          *)
(***************************************************************************)
IsLeap(y) == (y % 4 = 0 /\ y % 100 # 0) \/ y % 400 = 0

DaysInMonth(y, m) ==
    IF m = 2 THEN (IF IsLeap(y) THEN 29 ELSE 28)
    ELSE IF m \in {4, 6, 9, 11} THEN 30 ELSE 31

\* Days from 1970-01-01 to the civil date y-m-d.
DaysFromCivil(y, m, d) ==
    LET yy == IF m <= 2 THEN y - 1 ELSE y
        era == yy \div 400
        yoe == yy - era * 400
        doy == (153 * (IF m > 2 THEN m - 3 ELSE m + 9) + 2) \div 5 + d - 1
        doe == yoe * 365 + yoe \div 4 - yoe \div 100 + doy
    IN era * 146097 + doe - 719468

\* The civil date of a day number.
CivilFromDays(days) ==
    LET z == days + 719468
        era == z \div 146097
        doe == z - era * 146097
        yoe == (doe - doe \div 1460 + doe \div 36524 - doe \div 146096) \div 365
        doy == doe - (365 * yoe + yoe \div 4 - yoe \div 100)
        mp == (5 * doy + 2) \div 153
        d == doy - (153 * mp + 2) \div 5 + 1
        m == IF mp < 10 THEN mp + 3 ELSE mp - 9
    IN [year |-> yoe + era * 400 + (IF m <= 2 THEN 1 ELSE 0), month |-> m, day |-> d]

\* datetime.now(timezone.utc), the clock reading `now`
DatetimeNow(now) ==
    LET date == CivilFromDays(now.sec \div 86400)
    IN [year |-> date.year, month |-> date.month, day |-> date.day,
        sod |-> now.sec % 86400, us |-> now.us]

\* dt + relativedelta(months=months), months a multiple of 12 or not: the month
\* moves, the year carries, and the day is clipped to the target month's length
AddMonths(dt, months) ==
    LET total == dt.month - 1 + months
        y == dt.year + total \div 12
        m == (total % 12) + 1
        d == IF dt.day > DaysInMonth(y, m) THEN DaysInMonth(y, m) ELSE dt.day
    IN [dt EXCEPT !.year = y, !.month = m, !.day = d]

\* int(dt.timestamp()): the fraction of a second is cut
IntTimestamp(dt) == DaysFromCivil(dt.year, dt.month, dt.day) * 86400 + dt.sod

\* The clock after `tick` more microseconds.
ClockAfter(now, tick) ==
    [sec |-> now.sec + (now.us + tick) \div 1000000, us |-> (now.us + tick) % 1000000]

\* calculate_expires_at(), reading the clock at `now`
calculate_expires_at(now) == IntTimestamp(AddMonths(DatetimeNow(now), 12))

(***************************************************************************)
(* JSON values and Python's view of them.  A JSON string is a text, a JSON *)
(* object a function from its keys to values.                              *)
(***************************************************************************)
Run(c, n) == [c |-> c, n |-> n]

JNull == [t |-> "null"]

JStr(text) == [t |-> "str", v |-> text]

JNum(k) == [t |-> "num", v |-> k]

\* bool(v) if None counted as present: only '' and 0 are refused.
TruthyOfNone(v) ==
    CASE v.t = "null" -> TRUE
      [] v.t = "str" -> v.v # <<>>
      [] v.t = "num" -> v.v # 0

\* bool(v)
Truthy(v) ==
    CASE v.t = "null" -> FALSE
      [] v.t = "str" -> v.v # <<>>
      [] v.t = "num" -> v.v # 0

RECURSIVE Digits(_)
\* str(k) of an int k >= 0
Digits(k) ==
    IF k < 10 THEN <<Run(48 + k, 1)>> ELSE Digits(k \div 10) \o <<Run(48 + (k % 10), 1)>>

\* str(v)
PyStr(v) ==
    CASE v.t = "null" -> <<Run(78, 1), Run(111, 1), Run(110, 1), Run(101, 1)>>
      [] v.t = "str" -> v.v
      [] v.t = "num" -> Digits(v.v)

\* d.get(key, default)
Get(d, key, default) == IF key \in DOMAIN d THEN d[key] ELSE default

(***************************************************************************)
(* process_survey_message.  Its outcome names the exception it raised (""  *)
(* when it returned), the requests it sent to detect_sentiment, whether a  *)
(* response came back, the number of put_item calls it made, the items     *)
(* put_item wrote, and whether it logged the truncation warning.           *)
(***************************************************************************)
Outcome(raised, detect, classified, put, stored, warned) ==
    [raised |-> raised, detect |-> detect, classified |-> classified, put |-> put,
     stored |-> stored, warned |-> warned]

\* The outcome of a message that fails before any external call.
Rejected(raised) == Outcome(raised, <<>>, FALSE, 0, <<>>, FALSE)

\* The item if it carried the text sent to the classifier.
ItemOfTruncated(survey_id, customer_id, survey_text, comprehend_response, created_at, expires_at) ==
    [id |-> PyStr(survey_id),
     customerId |-> PyStr(customer_id),
     surveyText |-> truncate_text_for_comprehend(survey_text, COMPREHEND_MAX_BYTES).text,
     sentiment |-> comprehend_response.Sentiment,
     sentimentScore |-> comprehend_response.SentimentScore,
     created_at |-> created_at,
     expires_at |-> expires_at]

\* The item of lines 139-154.
Item(survey_id, customer_id, survey_text, comprehend_response, created_at, expires_at) ==
    [id |-> PyStr(survey_id),
     customerId |-> PyStr(customer_id),
     surveyText |-> survey_text,
     sentiment |-> comprehend_response.Sentiment,
     sentimentScore |-> comprehend_response.SentimentScore,
     created_at |-> created_at,
     expires_at |-> expires_at]

\* message_body: the body; comprehend_out and dynamodb_out: what the two services
\* answer if called; now1, now2: the clock at calculate_expires_at() and at the
\* datetime.now() of line 136.
process_survey_message(message_body, comprehend_out, now1, now2, dynamodb_out) ==
    IF message_body.kind \in {"empty", "malformed"}
    THEN Rejected("JSONDecodeError")
    ELSE IF message_body.kind # "object"
    THEN Rejected("AttributeError")
    ELSE
    LET survey_data == message_body.obj
        survey_id == Get(survey_data, "id", JNull)
        customer_id == Get(survey_data, "customerId", JNull)
        raw_text == Get(survey_data, "surveyText", JStr(<<>>))
    IN
    IF raw_text.t # "str" THEN Rejected("AttributeError")
    ELSE
    LET survey_text == Strip(raw_text.v) IN
    IF ~Truthy(survey_id) \/ ~Truthy(customer_id) \/ survey_text = <<>>
    THEN Rejected("ValueError")
    ELSE
    LET original_length == StrLen(survey_text)
        truncation == truncate_text_for_comprehend(survey_text, COMPREHEND_MAX_BYTES)
    IN
    IF truncation.raised # "" THEN Rejected(truncation.raised)
    ELSE
    LET survey_text_truncated == truncation.text
        warned == ByteLen(Encode(survey_text_truncated)) < original_length
        detect == <<[Text |-> survey_text_truncated,
                     LanguageCode |-> DEFAULT_LANGUAGE_CODE]>>
    IN
    IF comprehend_out.raised # ""
    THEN Outcome(comprehend_out.raised, detect, FALSE, 0, <<>>, warned)
    ELSE
    LET expires_at == calculate_expires_at(now1)
        created_at == DatetimeNow(now2)
        item == Item(survey_id, customer_id, survey_text, comprehend_out,
                     created_at, expires_at)
    IN Outcome(dynamodb_out, detect, TRUE, 1,
               IF dynamodb_out = "" THEN <<item>> ELSE <<>>, warned)

(***************************************************************************)
(* What the environment can hand to the program.                           *)
(***************************************************************************)
\* "s1", "c1", " ok ", whitespace, 'a'*5001, 'a'*4995 + two U+1F600, a lone surrogate
TextS1 == <<Run(115, 1), Run(49, 1)>>

TextC1 == <<Run(99, 1), Run(49, 1)>>

TextPadded == <<Run(32, 1), Run(111, 1), Run(107, 1), Run(32, 1)>>

TextBlank == <<Run(32, 2)>>

TextLongAscii == <<Run(97, COMPREHEND_MAX_BYTES + 1)>>

TextLongMulti == <<Run(97, COMPREHEND_MAX_BYTES - 5), Run(128512, 2)>>

TextSurrogate == <<Run(55296, 1)>>

\* text1 + text2
Concat(text1, text2) ==
    IF text1 = <<>> THEN text2
    ELSE IF text2 = <<>> THEN text1
    ELSE IF text1[Len(text1)].c = text2[1].c
    THEN SubSeq(text1, 1, Len(text1) - 1)
         \o <<Run(text2[1].c, text1[Len(text1)].n + text2[1].n)>>
         \o Tail(text2)
    ELSE text1 \o text2

RECURSIVE FromCodePoints(_)
\* The text of a sequence of code points.
FromCodePoints(cps) ==
    IF cps = <<>> THEN <<>>
    ELSE Concat(<<Run(cps[1], 1)>>, FromCodePoints(Tail(cps)))

\* 'b', U+00E9, U+20AC, U+1F600: one to four bytes each
TailCodePoints == {98, 233, 8364, 128512}

Tails == UNION {[1..n -> TailCodePoints] : n \in 0..MaxTail}

\* Texts around the byte budget: ASCII padding and a short tail of mixed widths,
\* and long runs of one multi-byte code point.
BudgetTexts ==
    {Concat(<<Run(97, p)>>, FromCodePoints(tail)) :
        p \in (COMPREHEND_MAX_BYTES - PadSlack)..(COMPREHEND_MAX_BYTES + 1),
        tail \in Tails}
    \cup {<<Run(c, (COMPREHEND_MAX_BYTES \div Len(Utf8(c))) + d)>> :
            c \in TailCodePoints \ {98}, d \in 0..2}

\* The surveyText values of the single-message runs: the texts around the budget,
\* some of them inside whitespace, and the short ones.
TextInputs ==
    BudgetTexts
    \cup {Concat(<<Run(32, 1)>>, Concat(t, <<Run(10, 2)>>)) :
            t \in {b \in BudgetTexts : Len(b) = 1}}
    \cup {TextPadded, TextBlank, TextSurrogate, TextS1, <<>>}

Object(obj) == [kind |-> "object", obj |-> obj]

Survey(id, text) == Object([id |-> id, customerId |-> JStr(TextC1), surveyText |-> text])

ValidBodies ==
    {Survey(JStr(TextS1), JStr(TextPadded)), Survey(JStr(TextS1), JStr(TextLongAscii)),
     Survey(JNum(7), JStr(TextLongMulti))}

InvalidBodies ==
    {[kind |-> "empty"], [kind |-> "malformed"], [kind |-> "scalar"],
     Object([customerId |-> JStr(TextC1), surveyText |-> JStr(TextPadded)]),
     Object([id |-> JStr(TextS1), surveyText |-> JStr(TextPadded)]),
     Object([id |-> JStr(TextS1), customerId |-> JStr(TextC1)]),
     Survey(JStr(<<>>), JStr(TextPadded)),
     Survey(JStr(TextS1), JStr(TextBlank)),
     Survey(JStr(TextS1), JNull),
     Survey(JStr(TextS1), JStr(TextSurrogate))}

\* An SQS record is a dict; 'body' may be absent.
RecordSet == {[body |-> b] : b \in ValidBodies \cup InvalidBodies} \cup {<<>>}

Batches(maxLen) == UNION {[1..n -> RecordSet] : n \in 0..maxLen}

\* detect_sentiment answers with a label and four scores (kept as the strings
\* str() makes of them), or raises.
ComprehendOutcomes ==
    {[raised |-> "", Sentiment |-> "POSITIVE",
      SentimentScore |-> [Positive |-> "0.97", Negative |-> "0.01", Neutral |-> "0.01",
                          Mixed |-> "0.01"]],
     [raised |-> "ClientError"], [raised |-> "Exception"]}

DynamoOutcomes == {"", "ClientError", "Exception"}

\* 2024-01-31T10:00:00.000000Z and 2024-02-29T23:59:59.999999Z
Clocks == {[sec |-> 1706695200, us |-> 0], [sec |-> 1709251199, us |-> 999999]}

\* Microseconds between the two clock readings of one message.
Ticks == {0, 1}

\* What the two services and the clock answer during one message.
Answers ==
    [comprehend_out : ComprehendOutcomes, now1 : Clocks, tick : Ticks,
     dynamodb_out : DynamoOutcomes]

\* process_survey_message under the answers `a`
Run1(message_body, a) ==
    process_survey_message(message_body, a.comprehend_out, a.now1,
                           ClockAfter(a.now1, a.tick), a.dynamodb_out)

\* The answers one message can observe: all of them when the classifier answers,
\* the classifier's alone when it fails, and a single one when the message is
\* rejected before the classifier is called (the rest is never asked for).
Unasked == CHOOSE a \in Answers : a.comprehend_out.raised = ""

Asked ==
    {a \in Answers :
        \/ a.comprehend_out.raised = ""
        \/ /\ a.now1 = Unasked.now1
           /\ a.tick = Unasked.tick
           /\ a.dynamodb_out = Unasked.dynamodb_out}

AnswersFor(message_body) ==
    IF Run1(message_body, Unasked).detect = <<>> THEN {Unasked} ELSE Asked

(***************************************************************************)
(* main                                                                    *)
(***************************************************************************)
NoResponse == [statusCode |-> 0]

\* Exceptions `except ValueError` catches.
ValueErrors == {"ValueError", "JSONDecodeError", "UnicodeEncodeError"}

\* record.get('body', '')
BodyOf(record) == Get(record, "body", [kind |-> "empty"])

\* put_item if it replaced the whole table by the item.
WrittenAlone(tbl, outcome) ==
    IF outcome.stored # <<>>
    THEN (outcome.stored[1].id :> outcome.stored[1])
    ELSE tbl

\* The table after put_item wrote the items of one outcome: the item replaces
\* whatever the table held under its key.
Written(tbl, outcome) ==
    IF outcome.stored # <<>>
    THEN (outcome.stored[1].id :> outcome.stored[1]) @@ tbl
    ELSE tbl

\* The branches if a ClientError were swallowed and the record counted as processed.
BranchSwallowsClientError(outcome) ==
    IF outcome.raised \in {"", "ClientError"} THEN "return"
    ELSE IF outcome.raised \in ValueErrors THEN "ValueError"
    ELSE "Exception"

\* The branch of main's try statement an outcome ends in.
Branch(outcome) ==
    IF outcome.raised = "" THEN "return"
    ELSE IF outcome.raised \in ValueErrors THEN "ValueError"
    ELSE IF outcome.raised = "ClientError" THEN "ClientError"
    ELSE "Exception"

LogEntry(invoked, outcome) == [invoked |-> invoked, outcome |-> outcome]

MainInit ==
    /\ pc = "idle"
    /\ records = <<>>
    /\ i = 0
    /\ processed_count = 0
    /\ failed_count = 0
    /\ response = NoResponse
    /\ table = <<>>
    /\ log = <<>>
    /\ calls = <<>>
    /\ delivered = 0

TruncIdle == t_in = <<>> /\ t_out = [raised |-> "", text |-> <<>>] /\ t_pc = "idle"

Init == MainInit /\ TruncIdle

\* The queue invokes main(event, context).
Invoke ==
    /\ pc = "idle"
    /\ \E batch \in Batches(MaxDelivered - delivered) :
        /\ records' = batch
        /\ delivered' = delivered + Len(batch)
    /\ pc' = "loop"
    /\ i' = 0
    /\ processed_count' = 0
    /\ failed_count' = 0
    /\ response' = NoResponse
    /\ log' = <<>>
    /\ calls' = <<>>
    /\ UNCHANGED <<table, truncVars>>

InLoop == pc = "loop" /\ i < Len(records)

\* Lines 218-221 without `failed_count += 1`.
EmptyBodyUncounted ==
    /\ InLoop
    /\ BodyOf(records[i + 1]).kind = "empty"
    /\ log' = Append(log, LogEntry(FALSE, Rejected("")))
    /\ i' = i + 1
    /\ UNCHANGED <<pc, records, processed_count, failed_count, response, table, calls,
                   delivered, truncVars>>

\* Lines 218-221: an empty body is counted as failed and the pipeline is skipped.
EmptyBody ==
    /\ InLoop
    /\ BodyOf(records[i + 1]).kind = "empty"
    /\ failed_count' = failed_count + 1
    /\ log' = Append(log, LogEntry(FALSE, Rejected("")))
    /\ i' = i + 1
    /\ UNCHANGED <<pc, records, processed_count, response, table, calls, delivered,
                   truncVars>>

\* One iteration that calls process_survey_message and ends in the branch `branch`
\* of main's try statement.
Iteration(branch) ==
    /\ InLoop
    /\ BodyOf(records[i + 1]).kind # "empty"
    /\ \E a \in AnswersFor(BodyOf(records[i + 1])) :
        log' = Append(log, LogEntry(TRUE, Run1(BodyOf(records[i + 1]), a)))
    /\ calls' = Append(calls, BodyOf(records[i + 1]))
    /\ Branch(log'[i + 1].outcome) = branch
    /\ table' = Written(table, log'[i + 1].outcome)
    /\ processed_count' = IF branch = "return" THEN processed_count + 1
                          ELSE processed_count
    /\ failed_count' = IF branch = "return" THEN failed_count ELSE failed_count + 1
    /\ i' = i + 1
    /\ UNCHANGED <<pc, records, response, delivered, truncVars>>

\* Lines 224-225.
Processed == Iteration("return")

\* Lines 227-230.
CaughtValueError == Iteration("ValueError")

\* Lines 231-238.
CaughtClientError == Iteration("ClientError")

\* Lines 239-247.
CaughtException == Iteration("Exception")

\* Lines 249-262 indented into the for loop: main returns after the first record.
ReturnInsideLoop ==
    /\ pc = "loop"
    /\ i = Len(records) \/ i >= 1
    /\ response' = [statusCode |-> 200,
                    body |-> [processed |-> processed_count, failed |-> failed_count,
                              total |-> Len(records)]]
    /\ pc' = "idle"
    /\ UNCHANGED <<records, i, processed_count, failed_count, table, log, calls,
                   delivered, truncVars>>

\* Lines 249-262.
Return ==
    /\ pc = "loop"
    /\ i = Len(records)
    /\ response' = [statusCode |-> 200,
                    body |-> [processed |-> processed_count, failed |-> failed_count,
                              total |-> Len(records)]]
    /\ pc' = "idle"
    /\ UNCHANGED <<records, i, processed_count, failed_count, table, log, calls,
                   delivered, truncVars>>

Step == EmptyBody \/ Processed \/ CaughtValueError \/ CaughtClientError
        \/ CaughtException \/ Return

Next ==
    \/ Invoke
    \/ EmptyBody
    \/ Processed
    \/ CaughtValueError
    \/ CaughtClientError
    \/ CaughtException
    \/ Return

Spec == Init /\ [][Next]_vars

(***************************************************************************)
(* One message with a surveyText drawn from TextInputs: main is invoked    *)
(* with that single record, and truncate_text_for_comprehend is also       *)
(* called on the text directly.                                            *)
(***************************************************************************)
TextInit ==
    /\ \E text \in TextInputs :
        /\ t_in = text
        /\ records = <<[body |-> Survey(JStr(TextS1), JStr(text))]>>
    /\ t_out = [raised |-> "", text |-> <<>>]
    /\ t_pc = "call"
    /\ pc = "loop"
    /\ i = 0
    /\ processed_count = 0
    /\ failed_count = 0
    /\ response = NoResponse
    /\ table = <<>>
    /\ log = <<>>
    /\ calls = <<>>
    /\ delivered = 1

TruncCall ==
    /\ t_pc = "call"
    /\ t_out' = truncate_text_for_comprehend(t_in, COMPREHEND_MAX_BYTES)
    /\ t_pc' = "return"
    /\ UNCHANGED <<t_in, mainVars>>

TextNext ==
    \/ TruncCall
    \/ Processed
    \/ CaughtValueError
    \/ CaughtClientError
    \/ CaughtException
    \/ Return

TextSpec == TextInit /\ [][TextNext]_vars

\* main is one synchronous call: once invoked it keeps running.  This is
\* WF_vars(Step) with ENABLED <<Step>>_vars written as the state predicate it equals:
\* inside the loop an empty body enables EmptyBody, any other body enables the
\* iteration of the branch its outcome ends in, and after the last record Return is
\* enabled; outside the loop no step of main is.
Fairness == []<>(pc # "loop") \/ []<><<Step>>_vars

FairSpec == Spec /\ Fairness

(***************************************************************************)
(* Properties.                                                             *)
(***************************************************************************)
\* Record k of the running invocation completed the pipeline: the loop reached it
\* and process_survey_message returned for it.
Completed(k) == k \in DOMAIN log /\ log[k].invoked /\ log[k].outcome.raised = ""

\* The bodies of `recs` that are not empty, in order.
NonEmptyBodies(recs) ==
    SelectSeq([k \in 1..Len(recs) |-> BodyOf(recs[k])], LAMBDA b : b.kind # "empty")

\* Every code point of the text is whitespace (the text is empty after trimming).
AllSpace(text) == \A k \in 1..Len(text) : IsSpace(text[k].c)

\* The messages the data model rejects: an empty body, or a message that lacks id or
\* customerId, or whose surveyText is missing or empty after trimming.
RejectedInput(body) ==
    \/ body.kind = "empty"
    \/ /\ body.kind = "object"
       /\ \/ "id" \notin DOMAIN body.obj
          \/ "customerId" \notin DOMAIN body.obj
          \/ "surveyText" \notin DOMAIN body.obj
          \/ body.obj.surveyText.t = "str" /\ AllSpace(body.obj.surveyText.v)

\* C1: whenever main has returned for a batch of N records of which K did not
\* complete the pipeline, the response carries status 200, processed = N-K,
\* failed = K and total = N (so processed + failed = total), for every K up to N.
C1_Counts ==
    response # NoResponse =>
        LET N == Len(records)
            K == Cardinality({k \in 1..N : ~Completed(k)})
        IN /\ response.statusCode = 200
           /\ response.body.processed = N - K
           /\ response.body.failed = K
           /\ response.body.total = N
           /\ response.body.processed + response.body.failed = response.body.total

\* A batch of at least two records, all of which failed, answered with status 200.
C1_Witness ==
    /\ response # NoResponse
    /\ response.statusCode = 200
    /\ response.body.total >= 2
    /\ response.body.failed = response.body.total
    /\ \E k \in DOMAIN log : log[k].invoked

\* The calls main has made so far are exactly the non-empty bodies of the records
\* it has finished, once each and in delivery order, and it answers only after the
\* last record.
C2_Order ==
    /\ i <= Len(records)
    /\ Len(log) = i
    /\ calls = NonEmptyBodies(SubSeq(records, 1, i))
    /\ response # NoResponse => i = Len(records)

\* C2: a failure never aborts the batch: main calls process_survey_message exactly
\* once for every record with a non-empty body, one at a time in delivery order,
\* whatever the earlier records did, and every invocation reaches the end of its
\* records and returns.
C2_RunsToCompletion ==
    /\ []C2_Order
    /\ (pc = "loop") ~> (pc = "idle" /\ response # NoResponse /\ i = Len(records))

\* main returned for a batch whose first record raised and whose second record was
\* still passed to process_survey_message.
C2_Witness ==
    /\ pc = "idle"
    /\ response # NoResponse
    /\ Len(records) = 2
    /\ log[1].invoked /\ log[1].outcome.raised \notin ValueErrors \cup {""}
    /\ log[2].invoked
    /\ Len(calls) = 2

\* C3: the iteration over a rejected message (empty body, no id, no customerId,
\* surveyText missing or blank) sends nothing to detect_sentiment, calls put_item
\* not at all, leaves the table alone and counts the record as failed.
C3_RejectedNoExternalCall ==
    [][(pc = "loop" /\ i' = i + 1 /\ RejectedInput(BodyOf(records[i + 1]))) =>
        /\ log'[i'].outcome.detect = <<>>
        /\ log'[i'].outcome.put = 0
        /\ log'[i'].outcome.stored = <<>>
        /\ table' = table
        /\ failed_count' = failed_count + 1
        /\ processed_count' = processed_count]_vars

\* A message without customerId and an empty body have both been handled, each
\* counted as failed and neither with an external call.
C3_Witness ==
    /\ \E k \in DOMAIN log :
        /\ BodyOf(records[k]).kind = "object"
        /\ "customerId" \notin DOMAIN BodyOf(records[k]).obj
        /\ log[k].invoked
        /\ log[k].outcome.detect = <<>>
    /\ \E k \in DOMAIN log : BodyOf(records[k]).kind = "empty" /\ ~log[k].invoked
    /\ failed_count = 2

\* C10: for every record, put_item is called at most once and only after
\* detect_sentiment answered that record's single request; a classifier failure
\* leaves no put_item call and no write; and processed_count is the number of
\* records whose put_item wrote.
C10_OrderedAndGated ==
    /\ \A k \in DOMAIN log :
        LET o == log[k].outcome
        IN /\ o.put <= 1
           /\ Len(o.stored) <= o.put
           /\ o.put = 1 => o.classified /\ Len(o.detect) = 1
           /\ ~o.classified => o.put = 0 /\ o.stored = <<>>
    /\ processed_count = Cardinality({k \in DOMAIN log : log[k].outcome.stored # <<>>})

\* One record whose classification failed, and one whose put_item failed after a
\* successful classification: neither is counted as processed.
C10_Witness ==
    /\ Len(log) = 2
    /\ Len(log[1].outcome.detect) = 1 /\ ~log[1].outcome.classified
    /\ log[2].outcome.classified /\ log[2].outcome.put = 1 /\ log[2].outcome.stored = <<>>
    /\ processed_count = 0

\* The surveyText of the message in record k, as it arrived.
OriginalText(k) == BodyOf(records[k]).obj.surveyText.v

\* Record k carried a surveyText string and its processing sent a request to the
\* classifier (the message passed validation and truncation).
Classified(k) == k \in DOMAIN log /\ log[k].outcome.detect # <<>>

\* The text encodes to more than the byte budget.
Exceeds(text) == ~EncodeRaises(text) /\ ByteLen(Encode(text)) > COMPREHEND_MAX_BYTES

\* A str whose UTF-8 encoding is made of whole, well-formed code points.
ValidUtf8(text) ==
    /\ ~EncodeRaises(text)
    /\ \A k \in 1..Len(text) :
        text[k].n >= 1 /\ text[k].c >= 0 /\ text[k].c <= 1114111
        /\ WellFormed(Utf8(text[k].c))

\* The text fits the classifier's contract.
Fits(text) == ValidUtf8(text) /\ ByteLen(Encode(text)) <= COMPREHEND_MAX_BYTES

\* text1 is a prefix of text2.
IsPrefix(text1, text2) ==
    \/ text1 = <<>>
    \/ /\ Len(text1) <= Len(text2)
       /\ \A k \in 1..(Len(text1) - 1) : text1[k] = text2[k]
       /\ text1[Len(text1)].c = text2[Len(text1)].c
       /\ text1[Len(text1)].n <= text2[Len(text1)].n

\* The code point of text2 that follows its proper prefix text1.
NextCodePoint(text1, text2) ==
    IF text1 = <<>> THEN text2[1].c
    ELSE IF text1[Len(text1)].n < text2[Len(text1)].n THEN text2[Len(text1)].c
    ELSE text2[Len(text1) + 1].c

\* text1 is the longest prefix of whole code points of text2 that fits in max bytes.
LongestFitting(text1, text2, max) ==
    /\ IsPrefix(text1, text2)
    /\ ByteLen(Encode(text1)) <= max
    /\ text1 # text2 =>
        ByteLen(Encode(text1)) + Len(Utf8(NextCodePoint(text1, text2))) > max

C5_FitsBudget ==
    /\ (t_pc = "return" /\ Exceeds(t_in)) => (t_out.raised = "" /\ Fits(t_out.text))
    /\ \A k \in DOMAIN log :
        (Classified(k) /\ Exceeds(Strip(OriginalText(k)))) =>
            /\ Len(log[k].outcome.detect) = 1
            /\ Fits(log[k].outcome.detect[1].Text)

\* A text over the budget whose cut fell inside a code point: the result is shorter
\* than the budget, and the classifier received a text that differs from the
\* validated one.
C5_Witness ==
    /\ t_pc = "return"
    /\ Exceeds(t_in)
    /\ t_out.text # <<>>
    /\ ByteLen(Encode(t_out.text)) < COMPREHEND_MAX_BYTES
    /\ \E k \in DOMAIN log :
        /\ Classified(k)
        /\ log[k].outcome.detect[1].Text # Strip(OriginalText(k))
        /\ log[k].outcome.detect[1].Text = t_out.text

\* C8: for a text over the budget the result is the longest prefix of whole code
\* points that fits in 5000 bytes: a code point that ends on the 5000th byte is kept.
C8_LongestPrefix ==
    (t_pc = "return" /\ Exceeds(t_in)) =>
        LongestFitting(t_out.text, t_in, COMPREHEND_MAX_BYTES)

\* C9: the truncation warning is logged exactly when the text sent to the
\* classifier differs from the validated text.
C9_WarnedIffTruncated ==
    \A k \in DOMAIN log :
        Classified(k) =>
            (log[k].outcome.warned <=>
                log[k].outcome.detect[1].Text # Strip(OriginalText(k)))

\* C6: every stored record's expires_at is the epoch second of the instant 12
\* calendar months after the instant in its own created_at (the day clipped to the
\* target month's length).
C6_TwelveMonthsAfterCreatedAt ==
    \A key \in DOMAIN table :
        table[key].expires_at = IntTimestamp(AddMonths(table[key].created_at, 12))

\* C7 as stated: once a record is stored under a key, no later step of the system
\* updates, replaces or deletes it.
C7_NeverMutated ==
    [][\A key \in DOMAIN table : key \in DOMAIN table' /\ table'[key] = table[key]]_vars

\* C7 as amended: no step deletes a stored record, and a step changes the record
\* under a key only by the put_item of a message it has just processed whose id is
\* that key, which replaces the record as a whole; every other record stays as
\* written.
C7_OnlyReplacedBySameId ==
    [][\A key \in DOMAIN table :
        /\ key \in DOMAIN table'
        /\ table'[key] # table[key] =>
            /\ pc = "loop" /\ i' = i + 1
            /\ BodyOf(records[i']).kind = "object"
            /\ PyStr(Get(BodyOf(records[i']).obj, "id", JNull)) = key
            /\ log'[i'].outcome.put = 1
            /\ log'[i'].outcome.stored = <<table'[key]>>]_vars

\* Two messages with the same id were stored one after the other while a record
\* under another id was in the table or not: the table holds the second message's
\* record, which differs from the first's.
C7_Witness ==
    /\ Len(log) = 2
    /\ log[1].outcome.stored # <<>>
    /\ log[2].outcome.stored # <<>>
    /\ log[1].outcome.stored[1].id = log[2].outcome.stored[1].id
    /\ log[1].outcome.stored[1] # log[2].outcome.stored[1]
    /\ table[log[2].outcome.stored[1].id] = log[2].outcome.stored[1]

====
